---------------------------- MODULE Spec2Model ----------------------------
(***************************************************************************)
(* A model of the growing-cities Landsat pipeline:                         *)
(*   satellite.py    Satellite (band selection table)                      *)
(*   scene.py        SceneID (fixed-width accessor), Scene (file-guarded   *)
(*                   processing steps)                                     *)
(*   earthexplorer.py  EarthExplorer (scene lookup, cloud filter)          *)
(*   main.py         main (years -> paths -> rows loop), merge_adjacent    *)
(*                                                                         *)
(* Python strings that the code indexes or slices are tuples of            *)
(* one-character strings.  A Python call is modelled by an operator that   *)
(* yields a result record [status, val]: status "ok" with the returned     *)
(* value, or the name of the exception raised.                             *)
(***************************************************************************)
EXTENDS Integers, Sequences, FiniteSets, TLC

VARIABLES
    sat,        \* the Satellite object under test (NoObject before construction)
    sid,        \* the SceneID string under test
    call,       \* the last library call made: [op, arg]
    ret,        \* what that call returned or raised
    fs,         \* files present in the current scene's output_dir
    scene,      \* the current Scene object (NoObject when there is none)
    last,       \* record of the last Scene step invoked
    pc,         \* position of main / Scene.process
    cfg,        \* the YAML configuration main was started with
    year,       \* main's loop variables
    path,
    row,
    crops,      \* rows of the current path_dir whose scene dir holds crop.tif
    trail       \* what main has done so far (printed log, in order)

vars == <<sat, sid, call, ret, fs, scene, last, pc, cfg, year, path, row, crops, trail>>

-----------------------------------------------------------------------------
(* Python results *)

NoObject == [status |-> "none"]

Ok(v) == [status |-> "ok", val |-> v]

Raise(e) == [status |-> e, val |-> <<>>]

IsOk(r) == r.status = "ok"

Min(a, b) == IF a < b THEN a ELSE b

\* A Python value with its run-time type, where the code's behaviour depends on it.
PyStr(s) == [type |-> "str", val |-> s]

PyNum(n) == [type |-> "int", val |-> n]

-----------------------------------------------------------------------------
(* satellite.py *)

\* Satellite.__init__
Satellite_init(version) ==
    IF version = 6 THEN Raise("ValueError")
    ELSE IF version > 8 THEN Raise("ValueError")
    ELSE Ok([version |-> version])

\* a slip of the comparison in Satellite.sensor: version 4 falls through to 'M'
sensor_off_by_one(self) ==
    IF self.version = 8 THEN "C"
    ELSE IF self.version = 7 THEN "E"
    ELSE IF self.version > 4 THEN "T"
    ELSE "M"

\* Satellite.sensor
sensor(self) ==
    IF self.version = 8 THEN "C"
    ELSE IF self.version = 7 THEN "E"
    ELSE IF self.version >= 4 THEN "T"
    ELSE "M"

Bands3(a, b, c) == <<PyStr(a), PyStr(b), PyStr(c)>>

\* Satellite.natural_color_bands
natural_color_bands(self) ==
    IF self.version < 4 THEN Raise("ValueError")
    ELSE IF self.version <= 5 /\ sensor(self) = "T" THEN Ok(Bands3("B30", "B20", "B10"))
    ELSE IF self.version <= 5 THEN Ok(Bands3("B3", "B2", "B1"))
    ELSE IF self.version = 7 THEN Ok(Bands3("B3", "B2", "B1"))
    ELSE Ok(Bands3("B4", "B3", "B2"))

\* Satellite.urban_false_color_bands
urban_false_color_bands(self) ==
    IF self.version < 4 THEN Raise("ValueError")
    ELSE IF self.version <= 5 /\ sensor(self) = "T" THEN Ok(Bands3("B70", "B50", "B30"))
    ELSE IF self.version <= 5 THEN Ok(Bands3("B7", "B5", "B3"))
    ELSE IF self.version = 7 THEN Ok(Bands3("B7", "B5", "B3"))
    ELSE Ok(Bands3("B7", "B6", "B4"))

\* Satellite.vegetation_false_color_bands
vegetation_false_color_bands(self) ==
    IF self.version < 4 THEN Ok(Bands3("B6", "B5", "B4"))
    ELSE IF self.version <= 5 /\ sensor(self) = "T" THEN Ok(Bands3("B40", "B30", "B20"))
    ELSE IF self.version <= 5 THEN Ok(Bands3("B4", "B2", "B1"))
    ELSE IF self.version = 7 THEN Ok(Bands3("B4", "B3", "B2"))
    ELSE Ok(Bands3("B5", "B4", "B3"))

\* Satellite.for_year
for_year(y) ==
    IF y >= 2013 THEN Satellite_init(8)
    ELSE IF y >= 1999 /\ y < 2003 THEN Satellite_init(7)
    ELSE IF y >= 1984 THEN Satellite_init(5)
    ELSE IF y >= 1982 THEN Satellite_init(4)
    ELSE IF y >= 1978 THEN Satellite_init(3)
    ELSE IF y >= 1975 THEN Satellite_init(2)
    ELSE Satellite_init(1)

-----------------------------------------------------------------------------
(* Python string primitives used by scene.py *)

DigitChars == <<"0", "1", "2", "3", "4", "5", "6", "7", "8", "9">>

\* s[i] (0-based); IndexError past the end
PyIndex(s, i) == IF i < Len(s) THEN Ok(s[i + 1]) ELSE Raise("IndexError")

\* s[a:b] (0-based, end exclusive); a slice never raises, it is clipped
PySlice(s, a, b) == SubSeq(s, a + 1, Min(b, Len(s)))

\* int(c) for a one-character string
PyInt(c) ==
    IF \E i \in 1..Len(DigitChars) : DigitChars[i] = c
    THEN Ok((CHOOSE i \in 1..Len(DigitChars) : DigitChars[i] = c) - 1)
    ELSE Raise("ValueError")

\* '%s' % n and '%i' % n for the one-digit numbers int(self[2]) can yield
FormatInt(n) == <<DigitChars[n + 1]>>

-----------------------------------------------------------------------------
(* scene.py: SceneID *)

\* SceneID.sensor
SceneID_sensor(self) == PyIndex(self, 1)

\* SceneID.version with the ValueError of int() swallowed
SceneID_version_lenient(self) ==
    LET c == PyIndex(self, 2)
    IN IF ~IsOk(c) THEN c
       ELSE IF IsOk(PyInt(c.val)) THEN PyInt(c.val) ELSE Ok(0)

\* SceneID.version
SceneID_version(self) ==
    LET c == PyIndex(self, 2)
    IN IF IsOk(c) THEN PyInt(c.val) ELSE c

\* the slice of SceneID.path taken one character short
SceneID_path_short(self) == Ok(PySlice(self, 3, 5))

\* SceneID.path
SceneID_path(self) == Ok(PySlice(self, 3, 6))

\* SceneID.row
SceneID_row(self) == Ok(PySlice(self, 6, 9))

\* SceneID.year
SceneID_year(self) == Ok(PySlice(self, 9, 13))

\* SceneID.day
SceneID_day(self) == Ok(PySlice(self, 13, 16))

\* SceneID.ground_station_id
SceneID_ground_station_id(self) == Ok(PySlice(self, 16, 19))

\* SceneID.archive_version
SceneID_archive_version(self) == Ok(PySlice(self, 19, 21))

\* SceneID.google_id
SceneID_google_id(self) ==
    LET v == SceneID_version(self)
        s == SceneID_sensor(self)
    IN IF ~IsOk(v) THEN v
       ELSE IF v.val > 4 THEN Ok(<<"L">> \o FormatInt(v.val))
       ELSE IF ~IsOk(s) THEN s
       ELSE Ok(<<"L", s.val>> \o FormatInt(v.val))

Accessors ==
    {"sensor", "version", "path", "row", "year", "day",
     "ground_station_id", "archive_version", "google_id"}

\* attribute lookup on a SceneID
SceneID_get(self, name) ==
    CASE name = "sensor" -> SceneID_sensor(self)
      [] name = "version" -> SceneID_version(self)
      [] name = "path" -> SceneID_path(self)
      [] name = "row" -> SceneID_row(self)
      [] name = "year" -> SceneID_year(self)
      [] name = "day" -> SceneID_day(self)
      [] name = "ground_station_id" -> SceneID_ground_station_id(self)
      [] name = "archive_version" -> SceneID_archive_version(self)
      [] name = "google_id" -> SceneID_google_id(self)

-----------------------------------------------------------------------------
(* earthexplorer.py *)

\* EarthExplorer.__init__
EarthExplorer_init(y, p, r, max_cloud_cover) ==
    [year |-> y, path |-> p, row |-> r, max_cloud_cover |-> max_cloud_cover]

\* _get_dataset_name with the 2003 boundary slipped by a year
get_dataset_name_late(self) ==
    IF self.year >= 2013 THEN Ok("LANDSAT_8")
    ELSE IF self.year > 2003 THEN Ok("LANDSAT_COMBINED")
    ELSE IF self.year >= 1999 THEN Ok("LANDSAT_ETM")
    ELSE IF self.year >= 1984 THEN Ok("LANDSAT_COMBINED")
    ELSE IF self.year >= 1972 THEN Ok("LANDSAT_MSS1")
    ELSE Raise("ValueError")

\* EarthExplorer._get_dataset_name
get_dataset_name(self) ==
    IF self.year >= 2013 THEN Ok("LANDSAT_8")
    ELSE IF self.year >= 2003 THEN Ok("LANDSAT_COMBINED")
    ELSE IF self.year >= 1999 THEN Ok("LANDSAT_ETM")
    ELSE IF self.year >= 1984 THEN Ok("LANDSAT_COMBINED")
    ELSE IF self.year >= 1972 THEN Ok("LANDSAT_MSS1")
    ELSE Raise("ValueError")

\* The cloudCoverFull texts the inventory is taken to send, with the value
\* float(text) gives them, in hundredths of a percent.
CloudTexts == {"0", "9.99", "10.00", "10.01", "35.5"}

\* float(text)
PyFloat(text) ==
    CASE text = "0" -> 0
      [] text = "9.99" -> 999
      [] text = "10.00" -> 1000
      [] text = "10.01" -> 1001
      [] text = "35.5" -> 3550

\* max_cloud_cover (a whole percentage in the configuration) on the scale of PyFloat
Hundredths(n) == n * 100

\* cloud_filter with the comparison slipped to >=
cloud_filter_strict(self, metadata) ==
    LET value == PyFloat(metadata.cloudCoverFull)
    IN IF value >= Hundredths(self.max_cloud_cover) THEN FALSE ELSE TRUE

\* cloud_filter (nested in get_scenes)
cloud_filter(self, metadata) ==
    LET value == PyFloat(metadata.cloudCoverFull)
    IN IF value > Hundredths(self.max_cloud_cover) THEN FALSE ELSE TRUE

\* get_scene_id (nested in get_scenes)
get_scene_id(metadata) == metadata.sceneID

\* EarthExplorer.get_scenes; content is the metaData entries of the response,
\* in document order.  requests lists the HTTP GETs issued.
get_scenes(self, content) ==
    LET name == get_dataset_name(self)
    IN IF ~IsOk(name)
       THEN [status |-> name.status, val |-> <<>>, requests |-> <<>>]
       ELSE LET url == [path |-> self.path, row |-> self.row,
                        sensor |-> name.val, year |-> self.year]
                metadata == content
                cloudless == SelectSeq(metadata, LAMBDA m : cloud_filter(self, m))
                scene_ids == [i \in 1..Len(cloudless) |-> get_scene_id(cloudless[i])]
            IN [status |-> "ok", val |-> scene_ids, requests |-> <<url>>]

-----------------------------------------------------------------------------
(* scene.py: Scene.  The files of output_dir are a set of file records.    *)

Dir == [kind |-> "dir", band |-> ""]                   \* output_dir itself
Archive == [kind |-> "archive", band |-> ""]           \* <scene_id>.tar.bz
Tif(b) == [kind |-> "TIF", band |-> b]                 \* <scene_id>_<band>.TIF
Tmp(b) == [kind |-> "tmp", band |-> b]                 \* <scene_id>_<band>_tmp.TIF
Projected(b) == [kind |-> "projected", band |-> b]     \* <scene_id>_<band>-projected.tif
Merged == [kind |-> "merged", band |-> ""]             \* merged.tif
Crop == [kind |-> "crop", band |-> ""]                 \* crop.tif
ColorCorrected == [kind |-> "color_corrected", band |-> ""]  \* color_corrected.tif

\* glob('%s/*_B*'): every band-named file, whatever its suffix
GlobBand(files) == {f \in files : f.kind \in {"TIF", "tmp", "projected"}}

\* glob('%s/*-projected.tif')
GlobProjected(files) == {f \in files : f.kind = "projected"}

\* Scene.__init__ (output_dir, levels and cutline only name files and arguments)
Scene_init(scene_id) ==
    LET v == SceneID_version(scene_id)
    IN IF ~IsOk(v) THEN v
       ELSE LET s == Satellite_init(v.val)
            IN IF ~IsOk(s) THEN s
               ELSE Ok([scene_id |-> scene_id, satellite |-> s.val])

\* 'B%i0' % b and 'B%i' % b: %i takes a number and raises TypeError on a str
FormatBand(b, long) ==
    IF b.type = "int"
    THEN Ok("B" \o DigitChars[b.val + 1] \o (IF long THEN "0" ELSE ""))
    ELSE Raise("TypeError")

\* Scene.bands
bands(self, files) ==
    LET long == Tif("B10") \in files
        ncb == natural_color_bands(self.satellite)
    IN IF ~IsOk(ncb) THEN ncb
       ELSE LET each == [i \in 1..Len(ncb.val) |-> FormatBand(ncb.val[i], long)]
            IN IF \E i \in 1..Len(each) : ~IsOk(each[i])
               THEN each[CHOOSE i \in 1..Len(each) :
                           ~IsOk(each[i]) /\ \A j \in 1..(i - 1) : IsOk(each[j])]
               ELSE Ok([i \in 1..Len(each) |-> each[i].val])

\* Scene.zip_exists
zip_exists(files) == Archive \in files

\* Scene.band_files_exist
band_files_exist(self, files) ==
    LET band_files == GlobBand(files)
        b == bands(self, files)
    IN IF ~IsOk(b) THEN b ELSE Ok(Cardinality(band_files) >= Len(b.val))

\* Scene.projected_files_exist
projected_files_exist(self, files) ==
    LET projected_files == GlobProjected(files)
        b == bands(self, files)
    IN IF ~IsOk(b) THEN b ELSE Ok(Cardinality(projected_files) >= Len(b.val))

\* Scene.merged_file_exists
merged_file_exists(files) == Merged \in files

\* Scene.color_corrected_file_exists
color_corrected_file_exists(files) == ColorCorrected \in files

\* Scene.crop_file_exists
crop_file_exists(files) == Crop \in files

-----------------------------------------------------------------------------
(* External commands (invoke.run).  A command is [tool, ins, outs, dels]:  *)
(* the files it reads, the files it writes in the order it writes them,    *)
(* and the files it removes.  The tools are opaque: the environment env    *)
(* decides which command of a step exits non-zero (fail_at, 0 for none)    *)
(* and how many of its outputs the last command run has written (keep).    *)
(* A command whose input file is missing exits non-zero and writes         *)
(* nothing.  run() raises Failure on a non-zero exit.                      *)

\* The band members of a scene archive, in archive order, by naming scheme.
Members(fmt) ==
    CASE fmt = "long" -> <<"B10", "B20", "B30", "B40">>
      [] fmt = "short" -> <<"B1", "B2", "B3", "B4">>
      [] fmt = "oli" -> <<"B1", "B10", "B2", "B3", "B4">>

ArchiveFormats(version) ==
    IF version > 7 THEN {"oli"}
    ELSE IF version = 7 THEN {"short"}
    ELSE {"long", "short"}

BandNames == {"B1", "B2", "B3", "B4", "B10", "B20", "B30", "B40"}

Cmd(tool, ins, outs, dels) == [tool |-> tool, ins |-> ins, outs |-> outs, dels |-> dels]

RECURSIVE RunFrom(_, _, _, _, _)
RunFrom(cmds, i, files, issued, env) ==
    IF i > Len(cmds)
    THEN [status |-> "return", files |-> files, cmds |-> issued, skipped |-> FALSE]
    ELSE LET c == cmds[i]
             missing == ~(c.ins \subseteq files)
             fails == missing \/ i = env.fail_at
             n == IF missing THEN 0
                  ELSE IF fails \/ i = Len(cmds) THEN Min(env.keep, Len(c.outs))
                  ELSE Len(c.outs)
             written == {c.outs[k] : k \in 1..n}
         IN IF fails
            THEN [status |-> "Failure", files |-> files \cup written,
                  cmds |-> Append(issued, c.tool), skipped |-> FALSE]
            ELSE RunFrom(cmds, i + 1, (files \ c.dels) \cup written,
                         Append(issued, c.tool), env)

\* run(cmd) for each command of a step in turn
Run(cmds, files, env) == RunFrom(cmds, 1, files, <<>>, env)

\* an early "return" at a file-existence guard
Skip(files) == [status |-> "return", files |-> files, cmds |-> <<>>, skipped |-> TRUE]

\* an exception raised by the step itself
Throw(e, files) == [status |-> e, files |-> files, cmds |-> <<>>, skipped |-> FALSE]

-----------------------------------------------------------------------------
(* scene.py: the six steps *)

\* Scene.download
download(self, files, env) ==
    IF zip_exists(files) THEN Skip(files)
    ELSE Run(<<Cmd("gsutil", {}, <<Archive>>, {})>>, files \cup {Dir}, env)

\* Scene.unzip
unzip(self, files, env) ==
    IF ~zip_exists(files) THEN Throw("IOError", files)
    ELSE LET bfe == band_files_exist(self, files)
         IN IF ~IsOk(bfe) THEN Throw(bfe.status, files)
            ELSE IF bfe.val THEN Skip(files)
            ELSE LET m == Members(env.fmt)
                 IN Run(<<Cmd("tar", {Archive}, [i \in 1..Len(m) |-> Tif(m[i])], {})>>,
                        files, env)

\* Scene._convert_to_8bit
convert_to_8bit(band) ==
    <<Cmd("gdal_translate", {Tif(band)}, <<Tmp(band)>>, {}),
      Cmd("rm_mv", {Tif(band), Tmp(band)}, <<Tif(band)>>, {Tmp(band)})>>

\* the body of the loop of Scene.project_bands for one band
project_band(self, band) ==
    (IF self.satellite.version > 7 THEN convert_to_8bit(band) ELSE <<>>)
    \o <<Cmd("gdalwarp", {Tif(band)}, <<Projected(band)>>, {})>>

RECURSIVE project_all(_, _, _)
project_all(self, bs, i) ==
    IF i > Len(bs) THEN <<>> ELSE project_band(self, bs[i]) \o project_all(self, bs, i + 1)

\* Scene.project_bands
project_bands(self, files, env) ==
    LET bfe == band_files_exist(self, files)
    IN IF ~IsOk(bfe) THEN Throw(bfe.status, files)
       ELSE IF ~bfe.val THEN Throw("IOError", files)
       ELSE LET pfe == projected_files_exist(self, files)
            IN IF ~IsOk(pfe) THEN Throw(pfe.status, files)
               ELSE IF pfe.val THEN Skip(files)
               ELSE LET b == bands(self, files)
                    IN IF ~IsOk(b) THEN Throw(b.status, files)
                       ELSE Run(project_all(self, b.val, 1), files, env)

\* Scene.merge_bands
merge_bands(self, files, env) ==
    LET pfe == projected_files_exist(self, files)
    IN IF ~IsOk(pfe) THEN Throw(pfe.status, files)
       ELSE IF ~pfe.val THEN Throw("IOError", files)
       ELSE IF merged_file_exists(files) THEN Skip(files)
       ELSE LET b == bands(self, files)
            IN IF ~IsOk(b) THEN Throw(b.status, files)
               ELSE Run(<<Cmd("rio_stack",
                              {Projected(b.val[i]) : i \in 1..Len(b.val)},
                              <<Merged>>, {})>>, files, env)

\* Scene.crop
crop(self, files, env) ==
    IF ~merged_file_exists(files) THEN Throw("IOError", files)
    ELSE IF crop_file_exists(files) THEN Skip(files)
    ELSE Run(<<Cmd("gdalwarp_cutline", {Merged}, <<Crop>>, {})>>, files, env)

\* Scene.color_correct: no external command; rasterio reads correct.tif and
\* crop.tif and writes color_corrected.tif, or raises when a read fails
color_correct(self, files, env) ==
    IF ~crop_file_exists(files) THEN Throw("IOError", files)
    ELSE IF color_corrected_file_exists(files) THEN Skip(files)
    ELSE IF env.fail_at > 0 THEN Throw("IOError", files)
    ELSE [status |-> "return", files |-> files \cup {ColorCorrected},
          cmds |-> <<>>, skipped |-> FALSE]

Steps == <<"download", "unzip", "project_bands", "merge_bands", "crop", "color_correct">>

\* the step of Scene.process at position k
Step(k, self, files, env) ==
    CASE k = 1 -> download(self, files, env)
      [] k = 2 -> unzip(self, files, env)
      [] k = 3 -> project_bands(self, files, env)
      [] k = 4 -> merge_bands(self, files, env)
      [] k = 5 -> crop(self, files, env)
      [] k = 6 -> color_correct(self, files, env)

-----------------------------------------------------------------------------
(* Bounds and inputs *)

MaxVersion == 10        \* Satellite versions tried: -MaxVersion..MaxVersion
MaxEdits == 2           \* characters of the base scene identifier replaced
MaxEntries == 2         \* metaData entries in an inventory response

Versions == (0 - MaxVersion)..MaxVersion

\* the years on either side of every boundary of the two year tables
SampleYears ==
    {1971, 1972, 1974, 1975, 1977, 1978, 1981, 1982, 1983, 1984,
     1998, 1999, 2002, 2003, 2012, 2013, 2014}

\* the identifier of the SceneID docstring, LT41910561988052AAA03
BaseId ==
    <<"L", "T", "4", "1", "9", "1", "0", "5", "6", "1", "9", "8", "8",
      "0", "5", "2", "A", "A", "A", "0", "3">>

EditChars == {"0", "8", "M"}

RECURSIVE Edited(_)
Edited(n) ==
    IF n = 0 THEN {BaseId}
    ELSE LET S == Edited(n - 1)
         IN S \cup {[s EXCEPT ![i] = c] : s \in S, i \in 1..Len(BaseId), c \in EditChars}

\* identifiers of the fixed length, and shorter and longer strings
SceneIds ==
    Edited(MaxEdits)
    \cup {SubSeq(BaseId, 1, n) : n \in 0..Len(BaseId)}
    \cup {BaseId \o <<"0">>}

MaxCloudCovers == {0, 10, 35}

Entries ==
    [sceneID : {BaseId, [BaseId EXCEPT ![3] = "5"]}, cloudCoverFull : CloudTexts]

Responses == UNION {[1..n -> Entries] : n \in 0..MaxEntries}

-----------------------------------------------------------------------------
(* Specifications of the library classes *)

libVars == <<sat, sid, call, ret>>
sceneVars == <<fs, scene, last>>
mainVars == <<pc, cfg, year, path, row, crops, trail>>

NoCall == [op |-> "none"]

IdleLib == sat = NoObject /\ sid = <<>> /\ call = NoCall /\ ret = NoObject
IdleScene == fs = {} /\ scene = NoObject /\ last = NoObject
IdleMain ==
    /\ pc = "idle" /\ cfg = NoObject /\ year = 0 /\ path = 0 /\ row = 0
    /\ crops = {} /\ trail = <<>>

(* Satellite *)

InitSatellite == IdleLib /\ IdleScene /\ IdleMain

NewSatellite ==
    \E v \in Versions :
        LET r == Satellite_init(v)
        IN /\ call' = [op |-> "Satellite", arg |-> v]
           /\ ret' = r
           /\ sat' = IF IsOk(r) THEN r ELSE sat
           /\ UNCHANGED <<sid, sceneVars, mainVars>>

ForYear ==
    \E y \in SampleYears :
        LET r == for_year(y)
        IN /\ call' = [op |-> "for_year", arg |-> y]
           /\ ret' = r
           /\ sat' = IF IsOk(r) THEN r ELSE sat
           /\ UNCHANGED <<sid, sceneVars, mainVars>>

GetSensor ==
    /\ IsOk(sat)
    /\ call' = [op |-> "sensor", arg |-> sat.val.version]
    /\ ret' = Ok(sensor(sat.val))
    /\ UNCHANGED <<sat, sid, sceneVars, mainVars>>

GetNaturalColorBands ==
    /\ IsOk(sat)
    /\ call' = [op |-> "natural_color_bands", arg |-> sat.val.version]
    /\ ret' = natural_color_bands(sat.val)
    /\ UNCHANGED <<sat, sid, sceneVars, mainVars>>

GetUrbanFalseColorBands ==
    /\ IsOk(sat)
    /\ call' = [op |-> "urban_false_color_bands", arg |-> sat.val.version]
    /\ ret' = urban_false_color_bands(sat.val)
    /\ UNCHANGED <<sat, sid, sceneVars, mainVars>>

GetVegetationFalseColorBands ==
    /\ IsOk(sat)
    /\ call' = [op |-> "vegetation_false_color_bands", arg |-> sat.val.version]
    /\ ret' = vegetation_false_color_bands(sat.val)
    /\ UNCHANGED <<sat, sid, sceneVars, mainVars>>

NextSatellite ==
    \/ NewSatellite
    \/ ForYear
    \/ GetSensor
    \/ GetNaturalColorBands
    \/ GetUrbanFalseColorBands
    \/ GetVegetationFalseColorBands

SpecSatellite == InitSatellite /\ [][NextSatellite]_vars

(* SceneID *)

InitSceneID ==
    /\ sid \in SceneIds
    /\ sat = NoObject /\ call = NoCall /\ ret = NoObject
    /\ IdleScene /\ IdleMain

Access ==
    \E name \in Accessors :
        /\ call' = [op |-> name]
        /\ ret' = SceneID_get(sid, name)
        /\ UNCHANGED <<sat, sid, sceneVars, mainVars>>

NextSceneID == Access

SpecSceneID == InitSceneID /\ [][NextSceneID]_vars

(* EarthExplorer *)

\* the explorer main builds for one (year, path, row), and the response it will get
InitExplorer ==
    /\ call \in [op : {"get_scenes"},
                 self : {EarthExplorer_init(y, 1, 1, m) : y \in SampleYears, m \in MaxCloudCovers},
                 content : Responses]
    /\ sat = NoObject /\ sid = <<>> /\ ret = NoObject
    /\ IdleScene /\ IdleMain

GetScenes ==
    /\ ret = NoObject
    /\ ret' = get_scenes(call.self, call.content)
    /\ UNCHANGED <<sat, sid, call, sceneVars, mainVars>>

NextExplorer == GetScenes

SpecExplorer == InitExplorer /\ [][NextExplorer]_vars

-----------------------------------------------------------------------------
(* Scene steps invoked one at a time on a scene directory (SpecSteps) *)

\* most commands step k can issue: one, or for project_bands one gdalwarp per
\* band, after two conversion commands per band on a Landsat 8
CmdLimit(k, self) ==
    IF k = 3 THEN (IF self.satellite.version > 7 THEN 3 * 3 ELSE 3) ELSE 1

\* most files one command of step k writes
OutLimit(k) == IF k = 2 THEN Len(Members("oli")) ELSE 1

\* what the opaque tools may do during step k
Envs(k, self) ==
    [fail_at : 0..CmdLimit(k, self),
     keep : 0..OutLimit(k),
     fmt : IF k = 2 THEN ArchiveFormats(self.satellite.version) ELSE {"short"}]

VersionChars == {"1", "4", "7", "8"}

\* scenes of a Landsat 1, 4, 7 and 8
SampleScenes == {Scene_init([BaseId EXCEPT ![3] = c]).val : c \in VersionChars}

TifSets ==
    {{}, {Tif("B10")}, {Tif("B10"), Tif("B20"), Tif("B30")},
     {Tif("B1"), Tif("B2"), Tif("B3")}, {Tif("B2"), Tif("B3"), Tif("B4")},
     {Tif("B1"), Tif("B10"), Tif("B2")}}

ProjectedSets ==
    {{}, {Projected("B10"), Projected("B20")},
     {Projected("B10"), Projected("B20"), Projected("B30")},
     {Projected("B1"), Projected("B2"), Projected("B3")},
     {Projected("B2"), Projected("B3"), Projected("B4")}}

\* what a scene directory may hold when a step is invoked: left by earlier
\* runs, partly deleted, or not there at all
InitialDirs ==
    {{}} \cup
    {{Dir} \cup a \cup t \cup p \cup m \cup c \cup cc :
        a \in {{}, {Archive}}, t \in TifSets, p \in ProjectedSets,
        m \in {{}, {Merged}}, c \in {{}, {Crop}}, cc \in {{}, {ColorCorrected}}}

InitSteps ==
    /\ scene \in SampleScenes
    /\ fs \in InitialDirs
    /\ last = NoObject
    /\ IdleLib /\ IdleMain

\* the record kept of step k having been invoked on the directory `before`
Invoked(k, before, r) ==
    [status |-> r.status, step |-> k, before |-> before,
     cmds |-> r.cmds, skipped |-> r.skipped]

Download ==
    \E env \in Envs(1, scene) :
        /\ fs' = download(scene, fs, env).files
        /\ last' = Invoked(1, fs, download(scene, fs, env))
        /\ UNCHANGED <<scene, libVars, mainVars>>

Unzip ==
    \E env \in Envs(2, scene) :
        /\ fs' = unzip(scene, fs, env).files
        /\ last' = Invoked(2, fs, unzip(scene, fs, env))
        /\ UNCHANGED <<scene, libVars, mainVars>>

ProjectBands ==
    \E env \in Envs(3, scene) :
        /\ fs' = project_bands(scene, fs, env).files
        /\ last' = Invoked(3, fs, project_bands(scene, fs, env))
        /\ UNCHANGED <<scene, libVars, mainVars>>

MergeBands ==
    \E env \in Envs(4, scene) :
        /\ fs' = merge_bands(scene, fs, env).files
        /\ last' = Invoked(4, fs, merge_bands(scene, fs, env))
        /\ UNCHANGED <<scene, libVars, mainVars>>

CropStep ==
    \E env \in Envs(5, scene) :
        /\ fs' = crop(scene, fs, env).files
        /\ last' = Invoked(5, fs, crop(scene, fs, env))
        /\ UNCHANGED <<scene, libVars, mainVars>>

ColorCorrect ==
    \E env \in Envs(6, scene) :
        /\ fs' = color_correct(scene, fs, env).files
        /\ last' = Invoked(6, fs, color_correct(scene, fs, env))
        /\ UNCHANGED <<scene, libVars, mainVars>>

\* scene.bands read on the directory as it is
GetBands ==
    /\ call' = [op |-> "bands"]
    /\ ret' = bands(scene, fs)
    /\ UNCHANGED <<sat, sid, sceneVars, mainVars>>

NextSteps ==
    \/ GetBands
    \/ Download
    \/ Unzip
    \/ ProjectBands
    \/ MergeBands
    \/ CropStep
    \/ ColorCorrect

SpecSteps == InitSteps /\ [][NextSteps]_vars

-----------------------------------------------------------------------------
(* main.py: main and merge_adjacent, with Scene.process (Spec) *)

MaxYears == 1           \* most years in the configured range
MaxPaths == 2           \* most paths in the configured range
MaxRows == 2            \* most rows in the configured range

\* the configurations main is started with; a range may be empty (end < start)
Configs ==
    [start_year : {1971, 1972}, years : 0..MaxYears,
     path_start : {191}, paths : 0..MaxPaths,
     row_start : {56}, rows : 0..MaxRows,
     max_cloud_cover : {10}]

end_year(c) == c.start_year + c.years - 1
path_end(c) == c.path_start + c.paths - 1
row_end(c) == c.row_start + c.rows - 1

At(p, y, pa, r) == [pc |-> p, year |-> y, path |-> pa, row |-> r]

\* main.py line 57: entering the row loop of (y, pa); merge_adjacent follows it
EnterPath(c, y, pa) ==
    IF c.row_start <= row_end(c)
    THEN At("row", y, pa, c.row_start)
    ELSE At("merge_adjacent", y, pa, c.row_start)

\* main.py lines 49 and 53: entering year y
EnterYear(c, y) ==
    IF y > end_year(c) \/ c.path_start > path_end(c)
    THEN At("done", y, c.path_start, c.row_start)
    ELSE EnterPath(c, y, c.path_start)

\* the row loop going straight on to the next path, merge_adjacent left out
NextRow_skips_merge(c, y, pa, r) ==
    IF r < row_end(c) THEN At("row", y, pa, r + 1)
    ELSE IF pa < path_end(c) THEN EnterPath(c, y, pa + 1)
    ELSE EnterYear(c, y + 1)

\* main.py line 57: the row loop going on after row r
NextRow(c, y, pa, r) ==
    IF r < row_end(c) THEN At("row", y, pa, r + 1) ELSE At("merge_adjacent", y, pa, r)

\* main.py lines 53 and 49: the path loop going on after path pa
NextPath(c, y, pa) ==
    IF pa < path_end(c) THEN EnterPath(c, y, pa + 1) ELSE EnterYear(c, y + 1)

\* merge_adjacent: files is the glob of crop.tif under path_dir; sources[0]
\* raises IndexError when it is empty
merge_adjacent(files) == IF files = {} THEN Raise("IndexError") ELSE Ok(files)

\* Scene.process going on to the next step although run() raised Failure
process_after_swallowing(k, status) ==
    IF status \in {"return", "Failure"}
    THEN (IF k < Len(Steps) THEN "next" ELSE "returned")
    ELSE "raised"

\* Scene.process, after step k ended with status: the try block goes on to
\* the next step, Failure is caught and printed, anything else propagates
process_after(k, status) ==
    IF status = "return" THEN (IF k < Len(Steps) THEN "next" ELSE "returned")
    ELSE IF status = "Failure" THEN "returned"
    ELSE "raised"

\* scene_ids[:1]
FirstOnly(scene_ids) == SubSeq(scene_ids, 1, Min(1, Len(scene_ids)))

\* what the inventory may answer in a run of main
MainEntry(c, cloud) == [sceneID |-> [BaseId EXCEPT ![3] = c], cloudCoverFull |-> cloud]

MainResponses ==
    {<<>>,
     <<MainEntry("4", "0")>>,
     <<MainEntry("8", "10.00"), MainEntry("4", "0")>>,
     <<MainEntry("4", "35.5"), MainEntry("7", "9.99")>>,
     <<MainEntry("1", "0")>>,
     <<MainEntry("6", "0")>>}

\* what the scene directory may hold before the scene is processed
MainDirs ==
    {{}, {Dir, Archive},
     {Dir, Archive, Tif("B10"), Tif("B20"), Tif("B30")},
     {Dir, Archive, Tif("B1"), Tif("B2"), Tif("B3"),
      Projected("B1"), Projected("B2"), Projected("B3"), Merged, Crop},
     {Dir, Crop, ColorCorrected}}

GoTo(at) == pc' = at.pc /\ year' = at.year /\ path' = at.path /\ row' = at.row

\* an exception nobody catches ends main
Crash(e) == pc' = "crashed" /\ last' = Raise(e) /\ UNCHANGED <<year, path, row>>

Init ==
    /\ cfg \in Configs
    /\ LET at == EnterYear(cfg, cfg.start_year)
       IN pc = at.pc /\ year = at.year /\ path = at.path /\ row = at.row
    /\ crops = {} /\ trail = <<>>
    /\ IdleScene
    /\ IdleLib

\* main.py lines 58-68: the body of the row loop up to scene.process()
LookUp ==
    /\ pc = "row"
    /\ \E content \in MainResponses, dir \in MainDirs :
        LET explorer == EarthExplorer_init(year, path, row, cfg.max_cloud_cover)
            found == get_scenes(explorer, content)
            first == FirstOnly(found.val)
            made == Scene_init(first[1])
        IN /\ call' = [op |-> "get_scenes", self |-> explorer, content |-> content]
           /\ ret' = found
           /\ trail' = <<>>
           /\ IF ~IsOk(found)
              THEN Crash(found.status) /\ UNCHANGED <<scene, fs, crops>>
              ELSE IF first = <<>>
              THEN /\ GoTo(NextRow(cfg, year, path, row))
                   /\ UNCHANGED <<scene, fs, crops, last>>
              ELSE IF ~IsOk(made)
              THEN Crash(made.status) /\ UNCHANGED <<scene, fs, crops>>
              ELSE /\ scene' = made.val
                   /\ fs' = dir
                   /\ pc' = "process"
                   /\ UNCHANGED <<year, path, row, crops, last>>
    /\ UNCHANGED <<sat, sid, cfg>>

\* Scene.process: its next step, and what process and main do with the outcome
ProcessStep ==
    /\ pc = "process"
    /\ LET k == Len(trail) + 1
       IN \E env \in Envs(k, scene) :
            LET r == Step(k, scene, fs, env)
                then == process_after(k, r.status)
            IN /\ fs' = r.files
               /\ trail' = Append(trail, Invoked(k, fs, r))
               /\ IF then = "next"
                  THEN UNCHANGED <<pc, year, path, row, crops, last>>
                  ELSE IF then = "returned"
                  THEN /\ GoTo(NextRow(cfg, year, path, row))
                       /\ crops' = IF Crop \in r.files THEN crops \cup {row} ELSE crops
                       /\ UNCHANGED last
                  ELSE Crash(r.status) /\ UNCHANGED crops
    /\ UNCHANGED <<libVars, scene, cfg>>

\* main.py line 71
MergeAdjacent ==
    /\ pc = "merge_adjacent"
    /\ IF IsOk(merge_adjacent(crops))
       THEN GoTo(NextPath(cfg, year, path)) /\ crops' = {} /\ UNCHANGED last
       ELSE Crash(merge_adjacent(crops).status) /\ UNCHANGED crops
    /\ UNCHANGED <<libVars, scene, fs, cfg, trail>>

Next ==
    \/ LookUp
    \/ ProcessStep
    \/ MergeAdjacent

Spec == Init /\ [][Next]_vars

-----------------------------------------------------------------------------
(* Scene.process called again and again on one scene directory (SpecRerun) *)

MaxRuns == 4            \* most process calls on the directory

\* a scene whose directory does not exist yet, process about to be called
InitRerun ==
    /\ scene \in SampleScenes
    /\ fs = {}
    /\ trail = <<>>
    /\ pc = "process"
    /\ call = [op |-> "process", n |-> 1]
    /\ last = NoObject
    /\ sat = NoObject /\ sid = <<>> /\ ret = NoObject
    /\ cfg = NoObject /\ year = 0 /\ path = 0 /\ row = 0 /\ crops = {}

\* Scene.process: its next step; the call ends when process returns or raises
RerunStep ==
    /\ pc = "process"
    /\ LET k == Len(trail) + 1
       IN \E env \in Envs(k, scene) :
            LET r == Step(k, scene, fs, env)
                then == process_after(k, r.status)
            IN /\ fs' = r.files
               /\ trail' = Append(trail, Invoked(k, fs, r))
               /\ pc' = IF then = "next" THEN "process" ELSE "ended"
               /\ last' = IF then = "raised" THEN Raise(r.status) ELSE NoObject
    /\ UNCHANGED <<sat, sid, call, ret, scene, cfg, year, path, row, crops>>

\* scene.process() is called once more on the directory as the last call left it
CallProcess ==
    /\ pc = "ended"
    /\ call.n < MaxRuns
    /\ call' = [call EXCEPT !.n = @ + 1]
    /\ pc' = "process"
    /\ trail' = <<>>
    /\ last' = NoObject
    /\ UNCHANGED <<sat, sid, ret, fs, scene, cfg, year, path, row, crops>>

NextRerun ==
    \/ RerunStep
    \/ CallProcess

SpecRerun == InitRerun /\ [][NextRerun]_vars

-----------------------------------------------------------------------------
(* Claims about the Scene steps (SpecSteps) and about main (Spec) *)

\* the band names the files of a scene carry for its natural color triplet
NaturalNames(self) ==
    IF self.satellite.version = 8 THEN {"B4", "B3", "B2"}
    ELSE IF self.satellite.version = 7 THEN {"B3", "B2", "B1"}
    ELSE {"B30", "B20", "B10"}

\* the file(s) step k reads
Inputs(k, self) ==
    CASE k = 1 -> {}
      [] k = 2 -> {Archive}
      [] k = 3 -> {Tif(b) : b \in NaturalNames(self)}
      [] k = 4 -> {Projected(b) : b \in NaturalNames(self)}
      [] k = 5 -> {Merged}
      [] k = 6 -> {Crop}

\* the file(s) step k produces
Outputs(k, self) ==
    CASE k = 1 -> {Archive}
      [] k = 2 -> {Tif(b) : b \in NaturalNames(self)}
      [] k = 3 -> {Projected(b) : b \in NaturalNames(self)}
      [] k = 4 -> {Merged}
      [] k = 5 -> {Crop}
      [] k = 6 -> {ColorCorrected}

\* C1: a step invoked when its own output file(s) already exist is a no-op:
\* it returns, issues no external command and leaves the files as they were.
\* Stated here for the scenes of a Landsat 4 or later and for the
\* directories that hold the step's input file(s) as well, the case most
\* favourable to the claim.
C1_StepIsNoOpOnceOutputExists ==
    (/\ last.status # "none"
     /\ scene.satellite.version >= 4
     /\ Outputs(last.step, scene) \subseteq last.before
     /\ Inputs(last.step, scene) \subseteq last.before)
    => (last.status = "return" /\ last.cmds = <<>> /\ fs = last.before)

LastStep == trail[Len(trail)]

\* another (year, path, row) follows the current one in the configured ranges
MoreScenesToCome == row < row_end(cfg) \/ path < path_end(cfg) \/ year < end_year(cfg)

\* C2: when an external command fails inside a step of Scene.process, no
\* later step of that scene runs, process returns normally, and main goes on
\* to the next (year, path, row) instead of aborting the run.
C2_CommandFailureDoesNotAbortRun ==
    (trail # <<>> /\ LastStep.status = "Failure" /\ MoreScenesToCome)
    => pc \notin {"process", "crashed"}

\* C3: when a step of a scene raises an I/O error for a missing precondition
\* file, main logs it and continues with the next scene; main is not ended.
C3_IOErrorDoesNotEndMain ==
    (trail # <<>> /\ LastStep.status = "IOError") => pc # "crashed"

\* C4: within one Scene.process call the steps run in the order download,
\* unzip, project_bands, merge_bands, crop, color_correct, each at most
\* once, and a step is entered only after every earlier step has returned
\* (skipped at its guard, or completed).
C4_StepsRunInOrder ==
    /\ Len(trail) <= Len(Steps)
    /\ \A i \in 1..Len(trail) :
        /\ trail[i].step = i
        /\ i < Len(trail) => trail[i].status = "return"

\* download ran gsutil to completion and unzip was entered after it
C4_Witness ==
    /\ Len(trail) = 2
    /\ trail[1].cmds = <<"gsutil">>
    /\ trail[1].status = "return"
    /\ trail[2].step = 2

\* none of the files step k reads is in the directory
InputsAbsent(k, files) ==
    CASE k = 2 -> Archive \notin files
      [] k = 3 -> GlobBand(files) = {}
      [] k = 4 -> GlobProjected(files) = {}
      [] k = 5 -> Merged \notin files
      [] k = 6 -> Crop \notin files

\* C12: unzip, project_bands, merge_bands, crop and color_correct, invoked
\* when the file(s) of the preceding step are absent, raise an I/O error,
\* issue no external command and leave the files as they were.  Stated for
\* the scenes of a Landsat 4 or later.
C12_MissingInputRaisesIOError ==
    (/\ last.status # "none"
     /\ last.step \in 2..Len(Steps)
     /\ scene.satellite.version >= 4
     /\ InputsAbsent(last.step, last.before))
    => (last.status = "IOError" /\ last.cmds = <<>> /\ fs = last.before)

\* every external command of the current process call exited 0 and left its output
CommandsSucceeded ==
    \A i \in 1..Len(trail) :
        /\ trail[i].status # "Failure"
        /\ trail[i].cmds # <<>> => Outputs(trail[i].step, scene) \subseteq fs

\* C13: under repeated process calls with commands that may fail part-way,
\* the guards are sound for the selected bands: when unzip skips extraction
\* and project_bands runs gdalwarp, the .TIF of each of the three bands
\* exists; so a process call whose external commands all succeed ends with
\* color_corrected.tif in place.  Stated for the scenes of a Landsat 4 or
\* later.
C13_GuardsSoundAndRerunCompletes ==
    scene.satellite.version >= 4 =>
        /\ (/\ Len(trail) >= 3
            /\ trail[2].skipped
            /\ \E j \in 1..Len(trail[3].cmds) : trail[3].cmds[j] = "gdalwarp")
           => Inputs(3, scene) \subseteq trail[3].before
        /\ (pc = "ended" /\ CommandsSucceeded) => ColorCorrected \in fs

\* C14: for a scene of a Landsat 4, 5, 7 or 8, Scene.bands evaluates without
\* raising and returns a list of exactly three band names.
C14_BandsReturnsThreeNames ==
    (call.op = "bands" /\ scene.satellite.version \in {4, 5, 7, 8})
    => (IsOk(ret) /\ Len(ret.val) = 3)

\* the loop variables lie in the configured inclusive ranges
InConfiguredRanges ==
    pc \in {"row", "process"} =>
        /\ year \in cfg.start_year..end_year(cfg)
        /\ path \in cfg.path_start..path_end(cfg)
        /\ row \in cfg.row_start..row_end(cfg)

\* one step of main keeps to the order years -> paths -> rows
LoopStep ==
    /\ (pc \in {"row", "process"} /\ pc' = "row") =>
        (year' = year /\ path' = path /\ row' = row + 1)
    /\ (pc \in {"row", "process"} /\ pc' = "merge_adjacent") =>
        (year' = year /\ path' = path /\ row = row_end(cfg))
    /\ (pc = "merge_adjacent" /\ pc' \in {"row", "merge_adjacent"}) =>
        /\ row' = cfg.row_start
        /\ \/ year' = year /\ path' = path + 1
           \/ path = path_end(cfg) /\ year' = year + 1 /\ path' = cfg.path_start
    /\ (pc = "merge_adjacent" /\ pc' = "done") =>
        (path = path_end(cfg) /\ year = end_year(cfg))
    /\ (pc = "row" /\ pc' = "process") =>
        /\ year' = year /\ path' = path /\ row' = row
        /\ ret'.val # <<>>
        /\ scene'.scene_id = ret'.val[1]
    /\ (pc = "process" /\ pc' = "process") =>
        (scene' = scene /\ year' = year /\ path' = path /\ row' = row)

-----------------------------------------------------------------------------
(* Claims about Satellite (SpecSatellite) *)

SupportedVersions == {1, 2, 3, 4, 5, 7, 8}

\* C5: Satellite(v) succeeds exactly for v in {1,2,3,4,5,7,8} and raises
\* ValueError for every other integer (6, above 8, below 1).
C5_OnlySupportedVersionsConstruct ==
    call.op = "Satellite" =>
        /\ IsOk(ret) <=> call.arg \in SupportedVersions
        /\ ~IsOk(ret) => ret.status = "ValueError"

\* C6: the band table.  Versions 4 and 5 get the long names for all three
\* modes, version 7 and version 8 their own triplets, versions 1-3 the
\* vegetation triplet B6,B5,B4; the sensor of versions 4-5 is 'T', and no
\* Satellite of version <= 5 is ever given the short-name triplet of the
\* "version <= 5" branch.
C6_BandTable ==
    /\ call.op = "sensor" /\ call.arg \in {4, 5} => ret = Ok("T")
    /\ call.op = "natural_color_bands" =>
        /\ call.arg \in {4, 5} => ret = Ok(Bands3("B30", "B20", "B10"))
        /\ call.arg = 7 => ret = Ok(Bands3("B3", "B2", "B1"))
        /\ call.arg = 8 => ret = Ok(Bands3("B4", "B3", "B2"))
        /\ call.arg <= 5 => ret # Ok(Bands3("B3", "B2", "B1"))
    /\ call.op = "urban_false_color_bands" =>
        /\ call.arg \in {4, 5} => ret = Ok(Bands3("B70", "B50", "B30"))
        /\ call.arg = 7 => ret = Ok(Bands3("B7", "B5", "B3"))
        /\ call.arg = 8 => ret = Ok(Bands3("B7", "B6", "B4"))
        /\ call.arg <= 5 => ret # Ok(Bands3("B7", "B5", "B3"))
    /\ call.op = "vegetation_false_color_bands" =>
        /\ call.arg \in {4, 5} => ret = Ok(Bands3("B40", "B30", "B20"))
        /\ call.arg = 7 => ret = Ok(Bands3("B4", "B3", "B2"))
        /\ call.arg = 8 => ret = Ok(Bands3("B5", "B4", "B3"))
        /\ call.arg \in {1, 2, 3} => ret = Ok(Bands3("B6", "B5", "B4"))
        /\ call.arg <= 5 => ret # Ok(Bands3("B4", "B2", "B1"))

\* a version-4 Satellite has been asked for its vegetation bands
C6_Witness ==
    /\ call.op = "vegetation_false_color_bands"
    /\ call.arg = 4
    /\ ret = Ok(Bands3("B40", "B30", "B20"))

\* C7: natural_color_bands and urban_false_color_bands raise ValueError
\* exactly when the version is 1, 2 or 3; vegetation_false_color_bands never
\* raises.
C7_RaiseExactlyOnVersions1To3 ==
    /\ call.op \in {"natural_color_bands", "urban_false_color_bands"} =>
        /\ ret.status \in {"ok", "ValueError"}
        /\ ret.status = "ValueError" <=> call.arg \in {1, 2, 3}
    /\ call.op = "vegetation_false_color_bands" => IsOk(ret)

-----------------------------------------------------------------------------
(* Claims about SceneID (SpecSceneID) *)

SceneIdLength == 21

IsDigit(c) == \E i \in 1..Len(DigitChars) : DigitChars[i] = c

DigitValue(c) == (CHOOSE i \in 1..Len(DigitChars) : DigitChars[i] = c) - 1

\* C8: on a 21-character identifier whose character at index 2 is a digit,
\* every accessor returns its substring (1-based SubSeq bounds below), and
\* the first character followed by the fields, in order, is the identifier.
C8_FieldsAreSubstrings ==
    (Len(sid) = SceneIdLength /\ IsDigit(sid[3])) =>
        /\ call.op = "sensor" => ret = Ok(sid[2])
        /\ call.op = "version" => ret = Ok(DigitValue(sid[3]))
        /\ call.op = "path" => ret = Ok(SubSeq(sid, 4, 6))
        /\ call.op = "row" => ret = Ok(SubSeq(sid, 7, 9))
        /\ call.op = "year" => ret = Ok(SubSeq(sid, 10, 13))
        /\ call.op = "day" => ret = Ok(SubSeq(sid, 14, 16))
        /\ call.op = "ground_station_id" => ret = Ok(SubSeq(sid, 17, 19))
        /\ call.op = "archive_version" => ret = Ok(SubSeq(sid, 20, 21))
        /\ <<sid[1], SceneID_get(sid, "sensor").val>>
             \o FormatInt(SceneID_get(sid, "version").val)
             \o SceneID_get(sid, "path").val
             \o SceneID_get(sid, "row").val
             \o SceneID_get(sid, "year").val
             \o SceneID_get(sid, "day").val
             \o SceneID_get(sid, "ground_station_id").val
             \o SceneID_get(sid, "archive_version").val
           = sid

\* the path of an edited 21-character identifier has been read
C8_Witness ==
    /\ Len(sid) = SceneIdLength
    /\ sid # BaseId
    /\ IsDigit(sid[3])
    /\ call.op = "path"
    /\ IsOk(ret)

\* C9 as stated: on a 21-character string, whatever its characters, no
\* accessor raises.
C9_NoAccessorRaises ==
    (Len(sid) = SceneIdLength /\ call.op \in Accessors) => IsOk(ret)

\* C9 amended: on a 21-character string the slicing accessors never raise;
\* version and google_id return a value exactly when the character at index
\* 2 is a decimal digit and raise ValueError otherwise.
C9_OnlyVersionParses ==
    (Len(sid) = SceneIdLength /\ call.op \in Accessors) =>
        IF call.op \in {"version", "google_id"}
        THEN /\ IsOk(ret) <=> IsDigit(sid[3])
             /\ ~IsOk(ret) => ret.status = "ValueError"
        ELSE IsOk(ret)

\* google_id has been read from an identifier whose version character is a letter
C9_Witness ==
    /\ Len(sid) = SceneIdLength
    /\ sid[3] = "M"
    /\ call.op = "google_id"
    /\ ret.status = "ValueError"

-----------------------------------------------------------------------------
(* Claims about EarthExplorer (SpecExplorer) *)

\* the identifiers of the entries whose cloud cover is at most max, in order
RECURSIVE KeptIds(_, _)
KeptIds(content, max) ==
    IF content = <<>> THEN <<>>
    ELSE (IF PyFloat(Head(content).cloudCoverFull) <= Hundredths(max)
          THEN <<Head(content).sceneID>> ELSE <<>>)
         \o KeptIds(Tail(content), max)

\* C10: get_scenes returns the identifiers of exactly the entries whose
\* cloudCoverFull does not exceed max_cloud_cover, in document order.
C10_CloudFilterKeepsOrder ==
    ret.status = "ok" => ret.val = KeptIds(call.content, call.self.max_cloud_cover)

\* an entry just above the threshold was dropped and the one at the threshold kept
C10_Witness ==
    /\ ret.status = "ok"
    /\ call.self.max_cloud_cover = 10
    /\ Len(call.content) = 2
    /\ call.content[1].cloudCoverFull = "10.01"
    /\ call.content[2].cloudCoverFull = "10.00"
    /\ ret.val = <<call.content[2].sceneID>>

\* the dataset the inventory is asked for in a year, by the table of the claim
DatasetOfYear(y) ==
    CASE y >= 2013 -> "LANDSAT_8"
      [] y \in 2003..2012 -> "LANDSAT_COMBINED"
      [] y \in 1999..2002 -> "LANDSAT_ETM"
      [] y \in 1984..1998 -> "LANDSAT_COMBINED"
      [] y \in 1972..1983 -> "LANDSAT_MSS1"

\* C11: the dataset name is a fixed function of the year (LANDSAT_8 from
\* 2013, LANDSAT_COMBINED 2003..2012, LANDSAT_ETM 1999..2002,
\* LANDSAT_COMBINED 1984..1998, LANDSAT_MSS1 1972..1983), and a year below
\* 1972 raises ValueError before any HTTP request is made.
C11_DatasetNameByYear ==
    ret.status # "none" =>
        IF call.self.year < 1972
        THEN ret.status = "ValueError" /\ ret.requests = <<>>
        ELSE /\ ret.status = "ok"
             /\ Len(ret.requests) = 1
             /\ ret.requests[1].sensor = DatasetOfYear(call.self.year)
             /\ ret.requests[1].year = call.self.year

\* the lookup of a year before Landsat 1 has raised without a request
C11_Witness ==
    /\ call.self.year = 1971
    /\ ret.status = "ValueError"
    /\ ret.requests = <<>>

=============================================================================
